---------------------------- MODULE Spec2Model ----------------------------
(* Model of the tool-augmented generation loop of the AI trip planner     *)
(* (src/app.py): the two tool executors, the reply-text extraction, the   *)
(* tool loop and the retry loop of plan_trip, regenerate_itinerary and    *)
(* adjust_for_weather, and two requests served concurrently.              *)
(*                                                                        *)
(* Text is a sequence of one-character tokens.  "b" is a backtick, "j"    *)
(* stands for the word json, "q" for a double quote, " " for any          *)
(* whitespace and "x" for any other character.                            *)
EXTENDS Integers, Sequences, FiniteSets, TLC

VARIABLES
    flow,             \* the route serving the request
    pc,               \* position of the request handler
    attempt,          \* attempt of the loop over range(max_retries)
    tool_call_count,  \* tool_call_count of the current attempt
    response,         \* response: the last reply of the model
    session,          \* session['itinerary_data']
    outcome,          \* what the handler returned to the caller
    obs,              \* observations of the run (counts, sleeps, history)
    xt,               \* extraction study: input and result
    tl,               \* tool study: input and result
    cc,               \* concurrency study: the request that is not running
    st                \* stored trips and shares, the login session, requests

vars == <<flow, pc, attempt, tool_call_count, response, session, outcome,
          obs, xt, tl, cc, st>>

Null == [k |-> "null"]

-----------------------------------------------------------------------------
(* Bounds of the model *)

MaxProse == 1     \* words of commentary before / after the document
MaxStr == 3       \* characters of a string value inside a document
MaxHotels == 2    \* hotels in a search result
MaxLocs == 2      \* locations in a location lookup result
MaxSwitches == 2  \* switches between two concurrent requests
MaxConcCalls == 1 \* tool calls of an attempt of a concurrent request
MaxShares == 2    \* shares that can be created
MaxViewers == 3   \* concurrent requests of view_shared_trip

-----------------------------------------------------------------------------
(* Python string primitives on token sequences (0-based indices) *)

Fence == <<"b", "b", "b">>
JsonFence == <<"b", "b", "b", "j">>

\* s[a:b] for 0 <= a, 0 <= b
Slice(s, a, b) ==
    LET hi == IF b > Len(s) THEN Len(s) ELSE b
    IN  IF a >= hi THEN <<>> ELSE SubSeq(s, a + 1, hi)

\* s[a:b] with Python's meaning of a negative start
PySlice(s, a, b) ==
    LET a0 == IF a < 0 THEN (IF a + Len(s) < 0 THEN 0 ELSE a + Len(s)) ELSE a
    IN  Slice(s, a0, b)

StartsAt(s, pat, i) ==
    /\ i + Len(pat) <= Len(s)
    /\ \A k \in 1..Len(pat) : s[i + k] = pat[k]

\* the occurrences of pat in s, as 0-based offsets
Occurrences(s, pat) == {i \in 0..Len(s) : StartsAt(s, pat, i)}

Min(S) == CHOOSE m \in S : \A n \in S : m <= n
Max(S) == CHOOSE m \in S : \A n \in S : m >= n

\* pat in s
Contains(s, pat) == Occurrences(s, pat) # {}

\* s.find(pat)
Find(s, pat) == IF Contains(s, pat) THEN Min(Occurrences(s, pat)) ELSE -1

\* s.rfind(pat)
RFind(s, pat) == IF Contains(s, pat) THEN Max(Occurrences(s, pat)) ELSE -1

RECURSIVE Split(_, _)
\* s.split(pat): the pieces between the non-overlapping occurrences of pat,
\* found left to right
Split(s, pat) ==
    IF ~Contains(s, pat) THEN <<s>>
    ELSE LET i == Find(s, pat)
         IN  <<Slice(s, 0, i)>> \o Split(Slice(s, i + Len(pat), Len(s)), pat)

IsSpace(c) == c = " "

RECURSIVE LStrip(_)
LStrip(s) == IF s # <<>> /\ IsSpace(Head(s)) THEN LStrip(Tail(s)) ELSE s

RECURSIVE RStrip(_)
RStrip(s) ==
    IF s # <<>> /\ IsSpace(s[Len(s)]) THEN RStrip(SubSeq(s, 1, Len(s) - 1)) ELSE s

\* s.strip()
Strip(s) == RStrip(LStrip(s))

-----------------------------------------------------------------------------
(* JSON documents.  A value is an atom (a number or literal, written "x"), *)
(* a string (q ... q), an object ({ ... }) or an array ([ ... ]); the keys *)
(* and separators of members are left out.                                 *)

Atom == [t |-> "atom", s |-> <<>>, m |-> <<>>]
\* a number greater than the budget of the request, written "9"
BigAtom == [t |-> "atom", s |-> <<"9">>, m |-> <<>>]
Str(chars) == [t |-> "str", s |-> chars, m |-> <<>>]
Obj(members) == [t |-> "obj", s |-> <<>>, m |-> members]
Arr(members) == [t |-> "arr", s |-> <<>>, m |-> members]

ParseFail == [ok |-> FALSE, val |-> Atom, next |-> 0]

RECURSIVE SkipWs(_, _)
SkipWs(s, i) == IF i <= Len(s) /\ IsSpace(s[i]) THEN SkipWs(s, i + 1) ELSE i

RECURSIVE ParseValue(_, _)
RECURSIVE ParseItems(_, _, _, _)

\* one value starting at position i (1-based) of s
ParseValue(s, i) ==
    LET k == SkipWs(s, i)
    IN  IF k > Len(s) THEN ParseFail
        ELSE CASE s[k] = "x" -> [ok |-> TRUE, val |-> Atom, next |-> k + 1]
               [] s[k] = "9" -> [ok |-> TRUE, val |-> BigAtom, next |-> k + 1]
               [] s[k] = "q" ->
                    LET closing == {j \in (k + 1)..Len(s) : s[j] = "q"}
                    IN  IF closing = {} THEN ParseFail
                        ELSE [ok |-> TRUE,
                              val |-> Str(SubSeq(s, k + 1, Min(closing) - 1)),
                              next |-> Min(closing) + 1]
               [] s[k] = "{" ->
                    LET r == ParseItems(s, k + 1, "}", <<>>)
                    IN  IF r.ok THEN [r EXCEPT !.val = Obj(r.val)] ELSE ParseFail
               [] s[k] = "[" ->
                    LET r == ParseItems(s, k + 1, "]", <<>>)
                    IN  IF r.ok THEN [r EXCEPT !.val = Arr(r.val)] ELSE ParseFail
               [] OTHER -> ParseFail

\* the members up to the closing delimiter
ParseItems(s, i, close, acc) ==
    LET k == SkipWs(s, i)
    IN  IF k > Len(s) THEN ParseFail
        ELSE IF s[k] = close THEN [ok |-> TRUE, val |-> acc, next |-> k + 1]
        ELSE LET r == ParseValue(s, k)
             IN  IF r.ok THEN ParseItems(s, r.next, close, Append(acc, r.val))
                 ELSE ParseFail

\* json.loads(s): the whole of s is one value, or the call raises
JsonLoads(s) ==
    LET r == ParseValue(s, 1)
    IN  IF r.ok /\ SkipWs(s, r.next) > Len(s)
        THEN [ok |-> TRUE, val |-> r.val]
        ELSE [ok |-> FALSE, val |-> Atom]

RECURSIVE JsonDumps(_)
RECURSIVE DumpsAll(_)
\* json.dumps(v)
JsonDumps(v) ==
    CASE v.t = "atom" -> IF v.s = <<>> THEN <<"x">> ELSE v.s
      [] v.t = "str" -> <<"q">> \o v.s \o <<"q">>
      [] v.t = "obj" -> <<"{">> \o DumpsAll(v.m) \o <<"}">>
      [] v.t = "arr" -> <<"[">> \o DumpsAll(v.m) \o <<"]">>

DumpsAll(vs) ==
    IF vs = <<>> THEN <<>>
    ELSE JsonDumps(Head(vs)) \o (IF Len(vs) > 1 THEN <<" ">> ELSE <<>>)
         \o DumpsAll(Tail(vs))

SeqsUpTo(S, n) == UNION {[1..k -> S] : k \in 0..n}

-----------------------------------------------------------------------------
(* Tool executors.  An external request ends in a network error, a timeout, *)
(* an HTTP error status, or delivers a body.  A call of an executor either  *)
(* returns a value or raises.                                               *)

DEFAULT_HOTEL_PRICE == 3500
HOTEL_SAMPLE == 5

RequestFailures == {"network_error", "timeout", "http_error"}

Returned(v) == [kind |-> "return", value |-> v, exc |-> "none"]
Raised(e) == [kind |-> "raise", value |-> Null, exc |-> e]

\* a price: the quotient num / den
Price(num, den) == [num |-> num, den |-> den]
DefaultPrice == Price(DEFAULT_HOTEL_PRICE, 1)

\* a location of the lookup result: a city with an id, a city whose id is
\* missing, or a place of another type
LocKinds == {"city", "city_noid", "region"}

\* a hotel of the search result, by the state of priceBreakdown.grossPrice.value
HotelKinds ==
    {[k |-> "noBreakdown", v |-> 0], [k |-> "noGross", v |-> 0],
     [k |-> "noValue", v |-> 0], [k |-> "bad", v |-> 0],
     [k |-> "price", v |-> 2000], [k |-> "price", v |-> 5000]}

RECURSIVE FirstCity(_)
\* the loop over locations: dest_id of the first city, None when there is none
FirstCity(locations) ==
    IF locations = <<>> THEN "None"
    ELSE IF Head(locations) = "city" THEN "id"
    ELSE IF Head(locations) = "city_noid" THEN "None"
    ELSE FirstCity(Tail(locations))

RECURSIVE CollectPrices(_, _)
\* the loop over hotels[:5]: the prices appended, or the exception of float()
CollectPrices(hotels, prices) ==
    IF hotels = <<>> THEN [ok |-> TRUE, prices |-> prices]
    ELSE LET h == Head(hotels)
         IN  IF h.k = "bad" THEN [ok |-> FALSE, prices |-> prices]
             ELSE IF h.k = "price"
             THEN CollectPrices(Tail(hotels), Append(prices, h.v))
             ELSE CollectPrices(Tail(hotels), prices)

RECURSIVE Sum(_)
Sum(ns) == IF ns = <<>> THEN 0 ELSE Head(ns) + Sum(Tail(ns))

\* step 2 of get_average_hotel_price: the search and the average
SearchHotels(search) ==
    IF search.net \in RequestFailures THEN Returned(DefaultPrice)
    ELSE IF search.results = <<>> THEN Returned(DefaultPrice)
    ELSE LET c == CollectPrices(Slice(search.results, 0, HOTEL_SAMPLE), <<>>)
         IN  IF ~c.ok THEN Raised("ValueError")
             ELSE IF c.prices = <<>> THEN Returned(DefaultPrice)
             ELSE Returned(Price(Sum(c.prices), Len(c.prices)))

\* get_average_hotel_price(destination) with RAPIDAPI_KEY set or not
get_average_hotel_price(in) ==
    IF ~in.api_key THEN Returned(DefaultPrice)
    ELSE IF in.lookup.net \in RequestFailures THEN Returned(DefaultPrice)
    ELSE IF FirstCity(in.lookup.locations) = "None" THEN Returned(DefaultPrice)
    ELSE SearchHotels(in.search)

\* the body of the weather reply: whether it parses and to what, the state of
\* its weather list and of its main object
WeatherBodies ==
    [parse : {"invalid", "array", "object"},
     weather : {"absent", "empty", "item"},
     cond : {"absent", "Rain"},
     main : {"absent", "number", "object"},
     temp : {"absent", "31"}]

WeatherErrorMut(reason) == [condition |-> "Unknown", note |-> reason]

WeatherError(reason) == [error |-> reason]

\* get_todays_weather(destination) with OPENWEATHER_API_KEY set or not
get_todays_weather(in) ==
    IF ~in.api_key THEN Returned(WeatherError("not configured"))
    ELSE IF in.net = "http_error" THEN Returned(WeatherError("status"))
    ELSE IF in.net \in RequestFailures THEN Returned(WeatherError(in.net))
    ELSE IF in.body.parse = "invalid" THEN Returned(WeatherError("JSONDecodeError"))
    ELSE IF in.body.parse = "array" THEN Returned(WeatherError("AttributeError"))
    ELSE IF in.body.weather = "empty" THEN Returned(WeatherError("IndexError"))
    ELSE IF in.body.main = "number" THEN Returned(WeatherError("AttributeError"))
    ELSE Returned(
        [condition |-> IF in.body.weather = "item" /\ in.body.cond # "absent"
                       THEN in.body.cond ELSE "Unknown",
         description |-> IF in.body.weather = "item" /\ in.body.cond # "absent"
                         THEN "Current condition is " \o in.body.cond
                         ELSE "Current condition is No description",
         temperature_celsius |-> IF in.body.main = "object" /\ in.body.temp # "absent"
                                 THEN in.body.temp ELSE "0"])

-----------------------------------------------------------------------------
(* Tool study: each executor on every outcome of its external requests *)

LookupOutcomes ==
    [net : RequestFailures, locations : {<<>>}]
    \cup [net : {"ok"}, locations : SeqsUpTo(LocKinds, MaxLocs)]

SearchOutcomes ==
    [net : RequestFailures, results : {<<>>}]
    \cup [net : {"ok"}, results : SeqsUpTo(HotelKinds, MaxHotels)]

HotelInputs ==
    [tool : {"get_average_hotel_price"}, api_key : BOOLEAN,
     lookup : LookupOutcomes, search : SearchOutcomes]

WeatherInputs ==
    [tool : {"get_todays_weather"}, api_key : BOOLEAN,
     net : RequestFailures \cup {"ok"}, body : WeatherBodies]

TInit ==
    /\ \E in \in HotelInputs \cup WeatherInputs :
          tl = [in |-> in, phase |-> "input", out |-> Raised("none")]
    /\ flow = "none" /\ pc = "idle" /\ attempt = 0 /\ tool_call_count = 0
    /\ response = Null /\ session = Null /\ outcome = "none" /\ obs = Null
    /\ xt = Null /\ cc = Null /\ st = Null

CallHotel ==
    /\ tl.phase = "input" /\ tl.in.tool = "get_average_hotel_price"
    /\ tl' = [tl EXCEPT !.phase = "done", !.out = get_average_hotel_price(tl.in)]
    /\ UNCHANGED <<flow, pc, attempt, tool_call_count, response, session,
                   outcome, obs, xt, cc, st>>

CallWeather ==
    /\ tl.phase = "input" /\ tl.in.tool = "get_todays_weather"
    /\ tl' = [tl EXCEPT !.phase = "done", !.out = get_todays_weather(tl.in)]
    /\ UNCHANGED <<flow, pc, attempt, tool_call_count, response, session,
                   outcome, obs, xt, cc, st>>

TNext == CallHotel \/ CallWeather

SpecTools == TInit /\ [][TNext]_vars

TDone(tool) == tl.phase = "done" /\ tl.in.tool = tool

IsDefaultPrice(p) == p.num = DEFAULT_HOTEL_PRICE * p.den

\* a failure of the price lookup at either stage, as the claim lists them
HotelFailure(in) ==
    \/ in.lookup.net \in RequestFailures
    \/ FirstCity(in.lookup.locations) = "None"
    \/ in.search.net \in RequestFailures
    \/ in.search.results = <<>>
    \/ \A i \in 1..Len(in.search.results) :
          in.search.results[i].k \in {"noBreakdown", "noGross", "noValue"}
    \/ \E i \in 1..Len(in.search.results) : in.search.results[i].k = "bad"

(* C5: get_average_hotel_price never raises, and on each failure outcome   *)
(* at either stage it returns exactly the default 3500.0.                  *)
C5_PriceNeverRaises ==
    TDone("get_average_hotel_price") =>
        /\ tl.out.kind = "return"
        /\ (HotelFailure(tl.in) => IsDefaultPrice(tl.out.value))

\* a failure of the weather lookup: no key, a failed request, or a body that
\* is not JSON, not an object, or whose weather / main have the wrong shape
WeatherFailure(in) ==
    \/ ~in.api_key
    \/ in.net \in RequestFailures
    \/ in.body.parse # "object"
    \/ in.body.weather = "empty"
    \/ in.body.main = "number"

(* C6: get_todays_weather never raises; on every failure outcome it        *)
(* returns a mapping with the key error, and on success a mapping with     *)
(* condition, description and temperature and without the key error.       *)
C6_WeatherNeverRaises ==
    TDone("get_todays_weather") =>
        /\ tl.out.kind = "return"
        /\ (WeatherFailure(tl.in) => "error" \in DOMAIN tl.out.value)
        /\ (~WeatherFailure(tl.in) =>
               DOMAIN tl.out.value =
                   {"condition", "description", "temperature_celsius"})

C6_Witness ==
    /\ TDone("get_todays_weather")
    /\ tl.in.api_key /\ tl.in.net = "ok" /\ tl.in.body.parse = "invalid"
    /\ "error" \in DOMAIN tl.out.value

-----------------------------------------------------------------------------
(* Extraction of the structured result from a reply text *)

ExtractFail(kind) == [ok |-> FALSE, val |-> Atom, err |-> kind]

\* the piece split(pat)[1]; an IndexError when there is none cannot happen
\* here, since the callers test pat in s first
SplitSecond(s, pat) == Split(s, pat)[2]

SplitFirst(s, pat) == Split(s, pat)[1]

\* plan_trip and regenerate_itinerary: the JSON fence, else any fence
FenceSelectObjMut(cleaned) == cleaned

FenceSelectObj(cleaned) ==
    IF Contains(cleaned, JsonFence)
    THEN SplitFirst(SplitSecond(cleaned, JsonFence), Fence)
    ELSE IF Contains(cleaned, Fence)
    THEN SplitFirst(SplitSecond(cleaned, Fence), Fence)
    ELSE cleaned

\* adjust_for_weather: the JSON fence only
FenceSelectArr(cleaned) ==
    IF Contains(cleaned, JsonFence)
    THEN SplitFirst(SplitSecond(cleaned, JsonFence), Fence)
    ELSE cleaned

JsonEndMut(cleaned, close) == Find(cleaned, <<close>>) + 1

\* json_end = cleaned_text.rfind(close) + 1
JsonEnd(cleaned, close) == RFind(cleaned, <<close>>) + 1

JsonStartMut(cleaned, open) == RFind(cleaned, <<open>>)

\* json_start = cleaned_text.find(open)
JsonStart(cleaned, open) == Find(cleaned, <<open>>)

LoadSliceMut(cleaned, open, close) ==
    LET r == JsonLoads(PySlice(cleaned, JsonStart(cleaned, open),
                               JsonEnd(cleaned, close)))
    IN  [ok |-> TRUE, val |-> IF r.ok THEN r.val ELSE Obj(<<>>), err |-> "none"]

\* json_text = cleaned_text[json_start:json_end]; json.loads(json_text)
LoadSlice(cleaned, open, close) ==
    LET r == JsonLoads(PySlice(cleaned, JsonStart(cleaned, open),
                               JsonEnd(cleaned, close)))
    IN  IF r.ok THEN [ok |-> TRUE, val |-> r.val, err |-> "none"]
        ELSE ExtractFail("JSONDecodeError")

\* plan_trip, from raw_text to ai_generated_itinerary
ExtractPlan(raw_text) ==
    LET cleaned == FenceSelectObj(Strip(raw_text))
    IN  IF JsonStart(cleaned, "{") = -1 \/ JsonEnd(cleaned, "}") = 0
        THEN ExtractFail("ValueError")
        ELSE LoadSlice(cleaned, "{", "}")

\* regenerate_itinerary, from raw_text to ai_generated_itinerary
ExtractRegen(raw_text) == LoadSlice(FenceSelectObj(Strip(raw_text)), "{", "}")

\* adjust_for_weather, from response.text to adjusted_activities
ExtractAdjust(raw_text) == LoadSlice(FenceSelectArr(Strip(raw_text)), "[", "]")

Extract(f, raw_text) ==
    CASE f = "plan" -> ExtractPlan(raw_text)
      [] f = "regen" -> ExtractRegen(raw_text)
      [] f = "adjust" -> ExtractAdjust(raw_text)

-----------------------------------------------------------------------------
(* Extraction study: a document wrapped in commentary, fenced or bare *)

RECURSIVE Concat(_)
Concat(ss) == IF ss = <<>> THEN <<>> ELSE Head(ss) \o Concat(Tail(ss))

ProseWords == {<<"x">>, <<" ">>, <<"{">>, <<"}">>, <<"b">>, Fence, JsonFence}

Prose == {Concat(ws) : ws \in SeqsUpTo(ProseWords, MaxProse)}

StrChars == {"b", "x"}

InnerValues ==
    {Atom, Obj(<<>>), Arr(<<>>)} \cup {Str(c) : c \in SeqsUpTo(StrChars, MaxStr)}

\* the documents: objects of at most one member, and one of two members
Docs ==
    {Obj(<<>>), Obj(<<Atom, Str(<<"x">>)>>)} \cup {Obj(<<v>>) : v \in InnerValues}

\* the reply text built from a document and its commentary
Wrap(lead, doc, trail, form) ==
    IF form = "fenced"
    THEN lead \o JsonFence \o JsonDumps(doc) \o Fence \o trail
    ELSE lead \o JsonDumps(doc) \o trail

XInit ==
    /\ xt \in [lead : Prose, doc : Docs, trail : Prose,
               form : {"fenced", "bare"}, phase : {"input"},
               res : {ExtractFail("none")}]
    /\ flow = "none" /\ pc = "idle" /\ attempt = 0 /\ tool_call_count = 0
    /\ response = Null /\ session = Null /\ outcome = "none" /\ obs = Null
    /\ tl = Null /\ cc = Null /\ st = Null

\* the plan_trip extraction applied to the wrapped document
XExtract ==
    /\ xt.phase = "input"
    /\ xt' = [xt EXCEPT !.phase = "done",
                        !.res = ExtractPlan(Wrap(xt.lead, xt.doc, xt.trail,
                                                 xt.form))]
    /\ UNCHANGED <<flow, pc, attempt, tool_call_count, response, session,
                   outcome, obs, tl, cc, st>>

XNext == XExtract

SpecExtract == XInit /\ [][XNext]_vars

XText == Wrap(xt.lead, xt.doc, xt.trail, xt.form)

XDone(form) == xt.phase = "done" /\ xt.form = form

XRoundTrip == xt.res.ok /\ xt.res.val = xt.doc

(* C7 as stated: every fenced wrapping of a document, whatever the          *)
(* commentary and the document, is extracted to a value equal to it.       *)
C7_Original == XDone("fenced") => XRoundTrip

(* C7 amended: a fenced wrapping is extracted to a value equal to the      *)
(* document when the leading commentary holds no JSON fence marker and the *)
(* serialized document holds no fence marker (three backticks).            *)
C7_RoundTripFenced ==
    (/\ XDone("fenced")
     /\ ~Contains(xt.lead, JsonFence)
     /\ ~Contains(JsonDumps(xt.doc), Fence)) => XRoundTrip

C7_Witness ==
    /\ XDone("fenced")
    /\ ~Contains(xt.lead, JsonFence)
    /\ ~Contains(JsonDumps(xt.doc), Fence)
    /\ xt.lead = <<"{">> /\ xt.trail = <<"}">>
    /\ xt.doc = Obj(<<Str(<<"b", "x", "b">>)>>)
    /\ XRoundTrip

(* C8 as stated: a reply without any fence made of commentary, one object  *)
(* and commentary is extracted to exactly that object.                     *)
C8_Original == (XDone("bare") /\ ~Contains(XText, Fence)) => XRoundTrip

(* C8 amended: a reply without any fence made of commentary, one object    *)
(* and commentary is extracted to exactly that object when the leading     *)
(* commentary holds no opening brace and the trailing commentary holds no  *)
(* closing brace.                                                          *)
C8_Unfenced ==
    (/\ XDone("bare")
     /\ ~Contains(XText, Fence)
     /\ ~Contains(xt.lead, <<"{">>)
     /\ ~Contains(xt.trail, <<"}">>)) => XRoundTrip

C8_Witness ==
    /\ XDone("bare")
    /\ ~Contains(XText, Fence)
    /\ xt.lead = <<"}">> /\ xt.trail = <<"{">>
    /\ xt.doc = Obj(<<Obj(<<>>)>>)
    /\ XRoundTrip

-----------------------------------------------------------------------------
(* The requests: plan_trip, adjust_for_weather, regenerate_itinerary *)

MAX_RETRIES == 3
MAX_TOOL_CALLS == 5
RATE_LIMIT_DELAY == 2
ERROR_DELAY == 1

Flows == {"plan", "adjust", "regen"}

\* the reply texts of the model
NoText == <<"no text">>
TObject == JsonDumps(Obj(<<Atom>>))
TArray == JsonDumps(Arr(<<Atom>>))

ReplyDocs ==
    {Obj(<<Atom>>), Obj(<<Str(Fence)>>), Obj(<<Str(<<"x">>)>>), Obj(<<Obj(<<>>)>>),
     Obj(<<BigAtom>>)}

FinalTexts ==
    {JsonDumps(d) : d \in ReplyDocs} \cup
    {TArray,
     <<"x">> \o JsonFence \o TObject \o Fence \o <<"x">>,
     <<"x">> \o JsonFence \o TArray \o Fence,
     Fence \o TObject \o Fence,
     Fence \o <<"{">> \o Fence \o TArray \o <<"}">>,
     <<"x", " ">> \o TObject \o <<" ", "x">>,
     <<"x", " ", "x">>,
     <<>>,
     <<"{", "x">>,
     <<"x", "}">>,
     <<"}", "x", "{">>,
     <<"]", "x", "[">>,
     <<"x", "]">>,
     <<"{", "b", "}">>,
     <<"[", "b", "]">>}

ToolNames == {"get_average_hotel_price", "get_todays_weather"}

\* a reply: the function call of its first part (its name and whether its
\* args hold destination), and its text (NoText: reading .text raises)
FinalReplies == [fc : {"none"}, has_dest : {FALSE}, text : FinalTexts]

CallReplies ==
    [fc : ToolNames, has_dest : BOOLEAN, text : {NoText, TObject}]
    \cup [fc : {"unknown_tool"}, has_dest : {FALSE}, text : {NoText, TObject, TArray}]

Replies == FinalReplies \cup CallReplies

\* an exception: its class and the marker texts its message contains
Markers == {"Malformed function call", "Resource Exhausted", "429"}
RateLimit == [cls |-> "ResourceExhausted", msg |-> {"429"}]
OtherError(msg) == [cls |-> "Exception", msg |-> msg]
NoExc == [cls |-> "none", msg |-> {}]
\* function_call.args['destination'] without that argument: its message is
\* the name of the key
ArgError == [cls |-> "KeyError", msg |-> {}]

\* what chat.send_message / model.generate_content can do
SendOutcomes ==
    [ok : {TRUE}, reply : Replies, exc : {NoExc}]
    \cup [ok : {FALSE}, reply : {Null},
          exc : {RateLimit} \cup {OtherError(m) : m \in SUBSET Markers}]

\* the outcomes of the external requests a dispatched tool can meet
DispatchInputs ==
    {[tool |-> "get_average_hotel_price", api_key |-> FALSE,
      lookup |-> [net |-> "timeout", locations |-> <<>>],
      search |-> [net |-> "timeout", results |-> <<>>]],
     [tool |-> "get_average_hotel_price", api_key |-> TRUE,
      lookup |-> [net |-> "ok", locations |-> <<"city">>],
      search |-> [net |-> "ok", results |-> <<[k |-> "price", v |-> 2000]>>]],
     [tool |-> "get_average_hotel_price", api_key |-> TRUE,
      lookup |-> [net |-> "ok", locations |-> <<"city">>],
      search |-> [net |-> "ok", results |-> <<[k |-> "bad", v |-> 0]>>]],
     [tool |-> "get_todays_weather", api_key |-> TRUE, net |-> "ok",
      body |-> [parse |-> "object", weather |-> "item", cond |-> "Rain",
                main |-> "object", temp |-> "31"]],
     [tool |-> "get_todays_weather", api_key |-> TRUE, net |-> "timeout",
      body |-> [parse |-> "invalid", weather |-> "absent", cond |-> "absent",
                main |-> "absent", temp |-> "absent"]]}

Invoke(in) ==
    IF in.tool = "get_average_hotel_price" THEN get_average_hotel_price(in)
    ELSE get_todays_weather(in)

\* the form data of the request, and an itinerary stored by an earlier request
RequestData == [destination |-> "Jaipur", budget |-> 20000]
OldItinerary == [request |-> RequestData, itinerary |-> Obj(<<>>)]

Outcome(status, body) == [status |-> status, body |-> body]
NoOutcome == Outcome("none", Null)

ObsInit ==
    [attempts |-> 0,        \* conversation attempts started
     sends |-> 0,           \* messages sent to the model
     fr_sends |-> 0,        \* function responses among them
     dispatches |-> 0,      \* executor calls of the request
     att_dispatches |-> 0,  \* executor calls of the current attempt
     first_fc |-> "none",   \* the tool the attempt's first reply requested
     sleeps |-> <<>>,       \* the sleeps, in order
     hist |-> <<>>,         \* how each attempt ended
     warned |-> FALSE,      \* the maximum-tool-calls warning of the attempt
     fr_name |-> "none",    \* the name the last function response carried
     chat |-> 0,            \* messages sent in the chat of the attempt
     arg_src |-> "none",    \* where the last executor call took destination from
     exc |-> NoExc]         \* the exception that ended the last failed attempt

Init ==
    /\ flow \in Flows
    /\ pc = "begin"
    /\ attempt = 0
    /\ tool_call_count = 0
    /\ response = Null
    /\ session \in {Null, OldItinerary}
    /\ outcome = NoOutcome
    /\ obs = ObsInit
    /\ xt = Null /\ tl = Null /\ cc = Null /\ st = Null

LoopContinuesMut(c) == TRUE

LoopContinuesOffByOne(c) == c <= MAX_TOOL_CALLS

\* while tool_call_count < max_tool_calls
LoopContinues(c) == c < MAX_TOOL_CALLS

\* tool_call_count += 1
NextCount(c) == c + 1

IsLastAttemptMut(a) == a + 2 = MAX_RETRIES

IsLastAttemptNever(a) == FALSE

\* if attempt + 1 == max_retries
IsLastAttempt(a) == a + 1 = MAX_RETRIES

SleepMut(sleeps, seconds) == sleeps

\* time.sleep(seconds)
Sleep(sleeps, seconds) == Append(sleeps, seconds)

PlanClassifyMut(msg) == "malformed_call"

PlanClassifyBusyFirst(msg) ==
    IF "Resource Exhausted" \in msg \/ "429" \in msg THEN "busy"
    ELSE IF "Malformed function call" \in msg THEN "malformed_call"
    ELSE "generic"

\* the message plan_trip flashes for an exception that is no ResourceExhausted
PlanClassify(msg) ==
    IF "Malformed function call" \in msg THEN "malformed_call"
    ELSE IF "Resource Exhausted" \in msg \/ "429" \in msg THEN "busy"
    ELSE "generic"

\* the handler returns: nothing but the outcome and the observations change
Finish(out, o) ==
    /\ pc' = "done"
    /\ outcome' = out
    /\ obs' = o
    /\ UNCHANGED <<attempt, session>>

\* the loop over range(max_retries) goes on to the next attempt
Retry(seconds, o) ==
    /\ pc' = "begin"
    /\ attempt' = attempt + 1
    /\ obs' = [o EXCEPT !.sleeps = Sleep(o.sleeps, seconds)]
    /\ UNCHANGED <<outcome, session>>

\* the except clauses of plan_trip
PlanExcept(e, o) ==
    IF e.cls = "ResourceExhausted"
    THEN IF IsLastAttempt(attempt)
         THEN Finish(Outcome("busy", Null), o)
         ELSE Retry(RATE_LIMIT_DELAY, o)
    ELSE Finish(Outcome(PlanClassify(e.msg), Null), o)

\* the except clauses of adjust_for_weather
AdjustExcept(e, o) ==
    IF e.cls = "ResourceExhausted"
    THEN IF IsLastAttempt(attempt)
         THEN Finish(Outcome("busy_503", Null), o)
         ELSE Retry(RATE_LIMIT_DELAY, o)
    ELSE IF IsLastAttempt(attempt)
         THEN Finish(Outcome("error_500", e), o)
         ELSE Retry(ERROR_DELAY, o)

\* the except clause of regenerate_itinerary
RegenExcept(e, o) == Finish(Outcome("regen_error", e), o)

\* an exception e ends the attempt
Except(e, o) ==
    LET o1 == [o EXCEPT !.exc = e,
                        !.hist = Append(@, IF e.cls = "ResourceExhausted"
                                           THEN "rate_limit" ELSE "error")]
    IN  CASE flow = "plan" -> PlanExcept(e, o1)
          [] flow = "adjust" -> AdjustExcept(e, o1)
          [] flow = "regen" -> RegenExcept(e, o1)

start_chatMut(turns) == turns

\* chat = model.start_chat(response_validation=False): a chat without turns,
\* whatever the chat of the attempt before held
start_chat(turns) == 0

\* chat = model.start_chat(); response = chat.send_message(prompt);
\* tool_call_count = 0
StartAttempt ==
    /\ pc = "begin" /\ flow \in {"plan", "adjust"}
    /\ attempt < MAX_RETRIES
    /\ \E r \in SendOutcomes :
          LET o == [obs EXCEPT !.attempts = @ + 1, !.sends = @ + 1,
                               !.att_dispatches = 0, !.first_fc = "none",
                               !.warned = FALSE,
                               !.chat = start_chat(@) + 1]
          IN  IF r.ok
              THEN /\ response' = r.reply
                   /\ tool_call_count' = 0
                   /\ pc' = "loop"
                   /\ obs' = [o EXCEPT !.first_fc = r.reply.fc]
                   /\ UNCHANGED <<attempt, session, outcome>>
              ELSE /\ Except(r.exc, o)
                   /\ UNCHANGED <<response, tool_call_count>>
    /\ UNCHANGED <<flow, xt, tl, cc, st>>

\* whether the flow has an executor branch for the requested tool
HasExecutorMut(f, name) == name \in ToolNames

HasExecutor(f, name) ==
    IF f = "plan" THEN name \in ToolNames ELSE name = "get_todays_weather"

\* the destination the executor is called with: the argument of the function
\* call in plan_trip, the destination of the HTTP request in adjust_for_weather
DestinationArg(f) == IF f = "plan" THEN "function_call.args" ELSE "request"

\* the loop has ended: the warning of the line after it
AfterLoop(o, c) == [o EXCEPT !.warned = (c >= MAX_TOOL_CALLS)]

\* one turn of the while loop: the reply is inspected, and a requested tool
\* is dispatched and its result sent back
LoopTurn ==
    /\ pc = "loop" /\ LoopContinues(tool_call_count)
    /\ IF response.fc = "none"
       THEN /\ pc' = "parse"
            /\ obs' = AfterLoop(obs, tool_call_count)
            /\ UNCHANGED <<attempt, tool_call_count, response, session, outcome>>
       ELSE /\ tool_call_count' = NextCount(tool_call_count)
            /\ IF ~HasExecutor(flow, response.fc)
               THEN /\ pc' = "parse"
                    /\ obs' = AfterLoop(obs, tool_call_count')
                    /\ UNCHANGED <<attempt, response, session, outcome>>
               ELSE IF flow = "plan" /\ ~response.has_dest
               THEN /\ Except(ArgError, obs)
                    /\ UNCHANGED response
               ELSE \E in \in {d \in DispatchInputs : d.tool = response.fc} :
                    \E r \in SendOutcomes :
                      LET o == [obs EXCEPT !.dispatches = @ + 1,
                                           !.att_dispatches = @ + 1,
                                           !.arg_src = DestinationArg(flow)]
                          os == [o EXCEPT !.sends = @ + 1, !.fr_sends = @ + 1,
                                          !.fr_name = in.tool,
                                          !.chat = @ + 1]
                      IN  IF Invoke(in).kind = "raise"
                          THEN /\ Except(OtherError({}), o)
                               /\ UNCHANGED response
                          ELSE IF r.ok
                          THEN /\ response' = r.reply
                               /\ pc' = "loop"
                               /\ obs' = os
                               /\ UNCHANGED <<attempt, session, outcome>>
                          ELSE /\ Except(r.exc, os)
                               /\ UNCHANGED response
    /\ UNCHANGED <<flow, xt, tl, cc, st>>

\* the while condition fails: the budget is used up
LoopExit ==
    /\ pc = "loop" /\ ~LoopContinues(tool_call_count)
    /\ pc' = "parse"
    /\ obs' = AfterLoop(obs, tool_call_count)
    /\ UNCHANGED <<flow, attempt, tool_call_count, response, session, outcome,
                   xt, tl, cc, st>>

\* regenerate_itinerary without original_itinerary or change_request in the
\* form: a flash and the redirect, before anything else
RegenMissingInput ==
    /\ pc = "begin" /\ flow = "regen"
    /\ Finish(Outcome("missing_input", Null), obs)
    /\ UNCHANGED <<flow, tool_call_count, response, xt, tl, cc, st>>

\* response = model.generate_content(prompt) of regenerate_itinerary
RegenSend ==
    /\ pc = "begin" /\ flow = "regen"
    /\ \E r \in SendOutcomes :
          LET o == [obs EXCEPT !.attempts = @ + 1, !.sends = @ + 1]
          IN  IF r.ok
              THEN /\ response' = r.reply
                   /\ pc' = "parse"
                   /\ obs' = o
                   /\ UNCHANGED <<attempt, session, outcome>>
              ELSE /\ Except(r.exc, o)
                   /\ UNCHANGED response
    /\ UNCHANGED <<flow, tool_call_count, xt, tl, cc, st>>

final_responseMut(data, itinerary) == itinerary

\* final_response = {"request": data, "itinerary": ai_generated_itinerary}
final_response(data, itinerary) == [request |-> data, itinerary |-> itinerary]

\* raw_text = response.text, the extraction, and the success path
Parse ==
    /\ pc = "parse"
    /\ IF response.text = NoText
       THEN Except(OtherError({}), obs)
       ELSE LET r == Extract(flow, response.text)
                o == [obs EXCEPT !.hist = Append(@, "ok")]
            IN  IF ~r.ok THEN Except(OtherError({}), obs)
                ELSE /\ pc' = "done"
                     /\ obs' = o
                     /\ outcome' = Outcome("ok", r.val)
                     /\ session' = IF flow = "adjust" THEN session
                                   ELSE final_response(RequestData, r.val)
                     /\ UNCHANGED attempt
    /\ UNCHANGED <<flow, tool_call_count, response, xt, tl, cc, st>>

Next ==
    StartAttempt \/ LoopTurn \/ LoopExit \/ RegenMissingInput \/ RegenSend
    \/ Parse

Spec == Init /\ [][Next]_vars

-----------------------------------------------------------------------------
(* Properties of the requests *)

Retried == flow \in {"plan", "adjust"}

Last(seq) == seq[Len(seq)]

Repeat(v, n) == [i \in 1..n |-> v]

AllRateLimit(hist) == \A i \in 1..Len(hist) : hist[i] = "rate_limit"

(* C1: in one attempt the tool loop ends after at most 5 dispatches: the   *)
(* counter grows by one on each tool-call turn, never exceeds 5, and every *)
(* step that stays in the loop raises it, so the loop cannot go on.        *)
C1_ToolLoopBounded ==
    [][/\ tool_call_count' <= MAX_TOOL_CALLS
       /\ obs'.att_dispatches <= MAX_TOOL_CALLS
       /\ (pc = "loop" /\ response.fc # "none"
           /\ tool_call_count < MAX_TOOL_CALLS)
              => tool_call_count' = tool_call_count + 1
       /\ (pc = "loop" /\ pc' = "loop")
              => /\ tool_call_count' > tool_call_count
                 /\ obs'.att_dispatches = obs.att_dispatches + 1]_vars

C1_Witness ==
    /\ pc = "parse" /\ Retried
    /\ response.fc \in ToolNames
    /\ tool_call_count = MAX_TOOL_CALLS
    /\ obs.att_dispatches = MAX_TOOL_CALLS

(* C2: a request whose first k attempts (k = 1 or 2) fail with a rate      *)
(* limit and whose attempt k+1 succeeds ends in success after exactly k+1  *)
(* attempts and exactly k sleeps of 2 seconds.                             *)
C2_RetryThenSuccess ==
    \A k \in 1..2 :
        (/\ pc = "done" /\ Retried
         /\ obs.hist = Repeat("rate_limit", k) \o <<"ok">>)
        => /\ outcome.status = "ok"
           /\ obs.attempts = k + 1
           /\ obs.sleeps = Repeat(2, k)

C2_Witness ==
    /\ pc = "done" /\ flow = "adjust"
    /\ obs.hist = <<"rate_limit", "rate_limit", "ok">>
    /\ obs.attempts = 3
    /\ obs.sleeps = <<2, 2>>

BusyStatus == IF flow = "plan" THEN "busy" ELSE "busy_503"

(* C3: when every attempt fails with a rate limit the request makes        *)
(* exactly 3 attempts, never a fourth, and ends busy (the busy flash in    *)
(* plan_trip, 503 in adjust_for_weather) with no sleep after the third.    *)
C3_RateLimitExhaustion ==
    Retried =>
        /\ obs.attempts <= MAX_RETRIES
        /\ (pc = "done" /\ obs.hist # <<>> /\ AllRateLimit(obs.hist))
           => /\ obs.hist = <<"rate_limit", "rate_limit", "rate_limit">>
              /\ obs.attempts = 3
              /\ outcome.status = BusyStatus
              /\ obs.sleeps = <<2, 2>>

C3_Witness ==
    /\ pc = "done" /\ flow = "plan"
    /\ obs.hist = <<"rate_limit", "rate_limit", "rate_limit">>
    /\ outcome.status = "busy"

ErrorStatuses == {"malformed_call", "busy", "generic", "error_500"}

(* C4: in plan_trip and adjust_for_weather an attempt that fails with an   *)
(* exception that is no rate limit ends the request on that attempt: no    *)
(* sleep, no further attempt, a terminal error.                            *)
C4_NoRetryOnError ==
    Retried =>
        \A i \in 1..Len(obs.hist) :
            obs.hist[i] = "error"
            => /\ i = Len(obs.hist)
               /\ pc = "done"
               /\ obs.attempts = i
               /\ Len(obs.sleeps) = i - 1
               /\ outcome.status \in ErrorStatuses

FlowOpen == IF flow = "adjust" THEN "[" ELSE "{"
FlowClose == IF flow = "adjust" THEN "]" ELSE "}"

\* no opening delimiter with a closing delimiter after it
NoPair(text, open, close) ==
    ~\E i \in 1..Len(text) : \E j \in (i + 1)..Len(text) :
        text[i] = open /\ text[j] = close

(* C9: in each of the three flows a reply text without a delimiter pair of *)
(* the flow's mode ends the extraction in a failure: the step returns no   *)
(* result and stores no itinerary.                                         *)
C9_NoPairFails ==
    [][(/\ pc = "parse" /\ response.text # NoText
        /\ NoPair(response.text, FlowOpen, FlowClose))
       => /\ outcome'.status # "ok"
          /\ session' = session
          /\ obs'.exc = OtherError({})
          /\ Last(obs'.hist) = "error"]_vars

C9_Witness ==
    /\ pc = "done" /\ flow = "regen" /\ response # Null
    /\ response.text = <<"x", "}">>
    /\ outcome.status = "regen_error"
    /\ session = OldItinerary

\* the first reply asks for the hotel price, the second is the document d
PriceThenFinal(d) ==
    /\ pc = "done" /\ flow = "plan" /\ attempt = 0
    /\ obs.first_fc = "get_average_hotel_price"
    /\ tool_call_count = 1
    /\ response.fc = "none"
    /\ response.text = JsonDumps(d)

StoredUnchanged(d) ==
    /\ outcome.status = "ok"
    /\ obs.dispatches = 1
    /\ obs.fr_sends = 1
    /\ obs.attempts = 1
    /\ obs.sleeps = <<>>
    /\ session = [request |-> RequestData, itinerary |-> d]

(* C10 as stated: whenever the first reply requests the hotel price and    *)
(* the second is a final JSON itinerary, one dispatch and one function     *)
(* response happen, the first attempt succeeds, and the itinerary stored   *)
(* is the parsed document with the request data.                           *)
C10_Original == \A d \in ReplyDocs : PriceThenFinal(d) => StoredUnchanged(d)

(* C10 amended: the same, for an itinerary whose serialization holds no    *)
(* fence marker (three backticks).                                         *)
C10_EndToEnd ==
    \A d \in ReplyDocs :
        (PriceThenFinal(d) /\ ~Contains(JsonDumps(d), Fence)) => StoredUnchanged(d)

C10_Witness ==
    /\ PriceThenFinal(Obj(<<Obj(<<>>)>>))
    /\ StoredUnchanged(Obj(<<Obj(<<>>)>>))

-----------------------------------------------------------------------------
(* C11: once five tools have been dispatched in an attempt, the loop is    *)
(* left for the extraction with the last reply untouched: no further tool  *)
(* is dispatched, no further message is sent, nothing is raised and the    *)
(* attempt goes on; the text that is then parsed is the text of that last  *)
(* reply, and when it holds a JSON value the request succeeds with it.     *)
C11_BudgetExhaustion ==
    [][ /\ (pc = "loop" /\ tool_call_count = MAX_TOOL_CALLS) =>
              /\ pc' = "parse"
              /\ response' = response
              /\ tool_call_count' = tool_call_count
              /\ attempt' = attempt
              /\ outcome' = outcome
              /\ obs'.dispatches = obs.dispatches
              /\ obs'.sends = obs.sends
              /\ obs'.hist = obs.hist
        /\ ( /\ pc = "parse" /\ tool_call_count = MAX_TOOL_CALLS
             /\ response.text # NoText
             /\ Extract(flow, response.text).ok ) =>
              /\ pc' = "done"
              /\ outcome' = Outcome("ok", Extract(flow, response.text).val)
      ]_vars

C11_Witness ==
    /\ pc = "done" /\ outcome.status = "ok"
    /\ tool_call_count = MAX_TOOL_CALLS
    /\ obs.att_dispatches = MAX_TOOL_CALLS
    /\ obs.sends = 1 + MAX_TOOL_CALLS
    /\ response # Null /\ response.fc \in ToolNames
    /\ response.text # NoText
    /\ outcome.body = Extract(flow, response.text).val

\* the reply asks for a function that the flow has no branch for
NoBranch ==
    /\ response # Null
    /\ \/ response.fc = "unknown_tool"
       \/ flow = "adjust" /\ response.fc = "get_average_hotel_price"

(* C12: when the reply inspected by the loop asks for a tool the flow has  *)
(* no executor for, the loop ends at once: no executor runs, no message is *)
(* sent, nothing is raised, and the attempt goes on to parse the text of   *)
(* that same reply, succeeding with the JSON value it holds.               *)
C12_UnknownToolEndsLoop ==
    [][ /\ (pc = "loop" /\ tool_call_count < MAX_TOOL_CALLS /\ NoBranch) =>
              /\ pc' = "parse"
              /\ response' = response
              /\ attempt' = attempt
              /\ outcome' = outcome
              /\ obs'.dispatches = obs.dispatches
              /\ obs'.sends = obs.sends
              /\ obs'.hist = obs.hist
        /\ ( /\ pc = "parse" /\ NoBranch
             /\ response.text # NoText
             /\ Extract(flow, response.text).ok ) =>
              /\ pc' = "done"
              /\ outcome' = Outcome("ok", Extract(flow, response.text).val)
      ]_vars

C12_Witness ==
    /\ pc = "done" /\ outcome.status = "ok"
    /\ NoBranch /\ response.fc = "unknown_tool"
    /\ tool_call_count = 1
    /\ obs.dispatches = 0 /\ obs.sends = 1 /\ obs.attempts = 1
    /\ response.text # NoText
    /\ outcome.body = Extract(flow, response.text).val

\* plan_trip inspects a reply that asks for a known tool without its
\* destination argument
MissingArgument ==
    /\ flow = "plan" /\ pc = "loop" /\ tool_call_count < MAX_TOOL_CALLS
    /\ response.fc \in ToolNames /\ ~response.has_dest

\* plan_trip inspects a reply that asks for a tool that does not exist
UnknownRequested ==
    /\ flow = "plan" /\ pc = "loop" /\ tool_call_count < MAX_TOOL_CALLS
    /\ response.fc = "unknown_tool"

(* C13 as stated: a tool call that plan_trip cannot fulfil (a known tool   *)
(* without its destination, or an unknown tool) ends the request at once,  *)
(* without retry, with the malformed-call message.                         *)
C13_Original ==
    [][ (MissingArgument \/ UnknownRequested) =>
              /\ pc' = "done"
              /\ outcome'.status = "malformed_call"
              /\ attempt' = attempt
              /\ obs'.sleeps = obs.sleeps
      ]_vars

(* C13 amended: a known tool requested without its destination ends        *)
(* plan_trip at once, without retry, sleep, dispatch or send, with the     *)
(* generic failure message; an unknown tool does not end the request (the  *)
(* loop ends and the reply text is parsed); the malformed-call message is  *)
(* shown only for an exception whose text holds Malformed function call.   *)
C13_UnfulfillableCall ==
    [][ /\ MissingArgument =>
              /\ pc' = "done"
              /\ outcome' = Outcome("generic", Null)
              /\ attempt' = attempt
              /\ obs'.sleeps = obs.sleeps
              /\ obs'.dispatches = obs.dispatches
              /\ obs'.sends = obs.sends
        /\ UnknownRequested =>
              /\ pc' = "parse"
              /\ outcome' = outcome
              /\ obs'.hist = obs.hist
        /\ (flow = "plan" /\ outcome'.status = "malformed_call") =>
              "Malformed function call" \in obs'.exc.msg
      ]_vars

C13_Witness ==
    /\ flow = "plan" /\ pc = "done"
    /\ outcome = Outcome("generic", Null)
    /\ obs.exc = ArgError
    /\ response # Null /\ response.fc \in ToolNames /\ ~response.has_dest
    /\ obs.attempts = 1 /\ obs.sleeps = <<>>

\* the failure results that carry a fixed text and nothing of the exception
FixedMessages ==
    {Outcome(s, Null) : s \in {"busy", "malformed_call", "generic", "busy_503",
                               "error_500", "regen_error", "missing_input"}}

(* C14: in plan_trip, regenerate_itinerary and adjust_for_weather a failed *)
(* request shows the caller one of a fixed set of messages, which holds    *)
(* nothing of the text of the exception.                                   *)
C14_SanitizedFailure ==
    (pc = "done" /\ outcome.status # "ok") => outcome \in FixedMessages

\* total_estimate_inr of the document is a number greater than the budget of
\* the request
OverBudget(doc) ==
    /\ doc.t = "obj"
    /\ \E i \in DOMAIN doc.m : doc.m[i] = BigAtom

(* C16: every itinerary that plan_trip returns and stores has a total      *)
(* estimate that is not greater than the budget of the request.            *)
C16_WithinBudget ==
    (flow = "plan" /\ pc = "done" /\ outcome.status = "ok") =>
        /\ ~OverBudget(outcome.body)
        /\ ~OverBudget(session.itinerary)

(* C17: the tool-call counter belongs to the attempt and the attempt       *)
(* counter to the request: an attempt enters its loop with the counter at  *)
(* 0 and no dispatch of its own, the counter only grows by one inside the  *)
(* attempt, and the attempt counter grows, by one, only when the attempt   *)
(* failed with a rate-limit failure.                                       *)
C17_CounterScopes ==
    [][ /\ (pc = "begin" /\ pc' = "loop") =>
              /\ tool_call_count' = 0
              /\ obs'.att_dispatches = 0
        /\ (pc = "loop" /\ tool_call_count' # tool_call_count) =>
              tool_call_count' = tool_call_count + 1
        /\ attempt' # attempt =>
              /\ attempt' = attempt + 1
              /\ Last(obs'.hist) = "rate_limit"
      ]_vars

C19_WarningOnlyBeyondBudget ==
    obs.warned =>
        /\ tool_call_count = MAX_TOOL_CALLS
        /\ obs.att_dispatches = MAX_TOOL_CALLS
        /\ response.fc # "none"

\* the reply inspected by the loop asks, within the budget, for one of the
\* two tools the model client advertises, with its destination
AdvertisedRequested ==
    /\ pc = "loop" /\ tool_call_count < MAX_TOOL_CALLS
    /\ response.fc \in ToolNames /\ response.has_dest

(* C20: in every flow that runs the tool loop, a tool that the shared      *)
(* model client advertises and the model asks for within the budget is     *)
(* dispatched to its executor, and the executor is called with the         *)
(* arguments of that tool call.                                            *)
C20_AdvertisedToolsDispatched ==
    [][ AdvertisedRequested =>
              /\ obs'.dispatches = obs.dispatches + 1
              /\ obs'.arg_src = "function_call.args"
      ]_vars

-----------------------------------------------------------------------------
(* Two concurrent requests.  The server runs each request handler on a     *)
(* thread of its own; one request runs at a time here and a switch hands   *)
(* the processor to the other.  attempt, tool_call_count, chat, response   *)
(* are local variables of the handler and the session belongs to the       *)
(* request, so they form the frame of the request; the model client is the *)
(* one module-level object the handlers share, and they only read it.      *)

\* the frame of the running request
Frame ==
    [flow |-> flow, pc |-> pc, attempt |-> attempt,
     tool_call_count |-> tool_call_count, response |-> response,
     session |-> session, outcome |-> outcome, obs |-> obs]

\* the frame of a request that has not started
FrameInit(f) ==
    [flow |-> f, pc |-> "begin", attempt |-> 0, tool_call_count |-> 0,
     response |-> Null, session |-> Null, outcome |-> NoOutcome,
     obs |-> ObsInit]

LocalOfMut(saved, running) == running

\* the value of a local variable of a handler when its thread runs again:
\* the value it had when the thread stopped
LocalOf(saved, running) == saved

\* the replies and failures the two requests are run against: an attempt asks
\* for at most MaxConcCalls tools, fewer than MAX_TOOL_CALLS, so the while
\* condition holds whenever it is tested
ConcReplies ==
    {[fc |-> "none", has_dest |-> FALSE, text |-> TObject],
     [fc |-> "none", has_dest |-> FALSE, text |-> TArray],
     [fc |-> "get_todays_weather", has_dest |-> TRUE, text |-> NoText]}

ConcInputs ==
    /\ response \in ConcReplies \cup {Null}
    /\ obs.exc \in {NoExc, RateLimit, OtherError({})}
    /\ tool_call_count <= MaxConcCalls

CInit ==
    /\ flow = "plan"
    /\ pc = "begin" /\ attempt = 0 /\ tool_call_count = 0
    /\ response = Null /\ session = Null
    /\ outcome = NoOutcome /\ obs = ObsInit
    /\ cc = [frame |-> FrameInit("adjust"), switches |-> 0, midloop |-> FALSE]
    /\ st = Null
    /\ xt = Null /\ tl = Null

\* the steps of the running request
CStart == StartAttempt /\ ConcInputs'

CTurn == LoopTurn /\ ConcInputs'

CParse == Parse /\ ConcInputs'

\* the running request stops and the other one runs on
Switch ==
    /\ cc.switches < MaxSwitches
    /\ cc.frame.pc # "done"
    /\ flow' = cc.frame.flow
    /\ pc' = cc.frame.pc
    /\ attempt' = LocalOf(cc.frame.attempt, attempt)
    /\ tool_call_count' = LocalOf(cc.frame.tool_call_count, tool_call_count)
    /\ response' = cc.frame.response
    /\ session' = cc.frame.session
    /\ outcome' = cc.frame.outcome
    /\ obs' = cc.frame.obs
    /\ cc' = [frame |-> Frame, switches |-> cc.switches + 1,
              midloop |-> cc.midloop \/ (pc = "loop" /\ tool_call_count > 0)]
    /\ UNCHANGED <<xt, tl, st>>

CNext == CStart \/ CTurn \/ CParse \/ Switch

SpecConc == CInit /\ [][CNext]_vars

\* what a request that ran alone returns: the number of attempts, the sleeps
\* and the result follow from the failures of its own attempts
ExpectedSleeps(hist) ==
    [i \in 1..(Len(hist) - 1) |->
        IF hist[i] = "rate_limit" THEN RATE_LIMIT_DELAY ELSE ERROR_DELAY]

ExpectedStatus(fr) ==
    CASE Last(fr.obs.hist) = "ok" -> "ok"
      [] Last(fr.obs.hist) = "rate_limit" ->
            IF fr.flow = "plan" THEN "busy" ELSE "busy_503"
      [] OTHER ->
            IF fr.flow = "plan" THEN PlanClassify(fr.obs.exc.msg)
            ELSE "error_500"

AsAlone(fr) ==
    /\ fr.pc \in {"loop", "parse"} =>
          /\ fr.obs.att_dispatches <= fr.tool_call_count
          /\ fr.tool_call_count <= fr.obs.att_dispatches + 1
          /\ fr.tool_call_count <= MAX_TOOL_CALLS
    /\ fr.obs.attempts = fr.attempt + (IF fr.pc = "begin" THEN 0 ELSE 1)
    /\ fr.pc = "done" =>
          /\ fr.obs.attempts = Len(fr.obs.hist)
          /\ fr.obs.sleeps = ExpectedSleeps(fr.obs.hist)
          /\ fr.outcome.status = ExpectedStatus(fr)
          /\ fr.obs.sends = fr.obs.attempts + fr.obs.fr_sends

(* C15: in any interleaving of two plan_trip / adjust_for_weather          *)
(* requests, a step of one request changes nothing of the other (its       *)
(* tool-call counter, attempt counter, observations, result), a request    *)
(* runs on with the counters it stopped with, and the attempts,            *)
(* dispatches, sleeps and result of each request are those its own         *)
(* replies give when it runs alone.                                        *)
C15_Isolation ==
    [][ /\ cc'.switches = cc.switches => cc'.frame = cc.frame
        /\ cc'.switches # cc.switches =>
              /\ cc'.frame = Frame
              /\ Frame' = cc.frame
        /\ AsAlone(Frame)' /\ AsAlone(cc.frame)'
      ]_vars

C15_Witness ==
    /\ cc # Null /\ cc.switches = 2 /\ cc.midloop
    /\ pc = "done" /\ cc.frame.pc = "done"
    /\ outcome.status = "ok" /\ cc.frame.outcome.status = "ok"
    /\ flow = "plan" /\ cc.frame.flow = "adjust"
    /\ tool_call_count = 1 /\ cc.frame.tool_call_count = 1
    /\ obs.dispatches = 1 /\ cc.frame.obs.dispatches = 1
    /\ obs.attempts = 1 /\ cc.frame.obs.attempts = 2
    /\ cc.frame.obs.sleeps = <<RATE_LIMIT_DELAY>>

-----------------------------------------------------------------------------
(* C21: in plan_trip a failure that is no ResourceExhausted is classified  *)
(* by its message, in this order: Malformed function call gives the        *)
(* malformed-call message, else Resource Exhausted or 429 the busy         *)
(* message, else the generic one.  The request ends on that attempt with   *)
(* that one message (no result existed before), without retry or sleep,    *)
(* also when the message alone says resource exhausted.                    *)
C21_ClassifyByMessage ==
    [][ (flow = "plan" /\ obs'.hist # obs.hist /\ Last(obs'.hist) = "error") =>
              /\ outcome = NoOutcome
              /\ pc' = "done"
              /\ outcome'.body = Null
              /\ outcome'.status =
                    IF "Malformed function call" \in obs'.exc.msg
                    THEN "malformed_call"
                    ELSE IF "Resource Exhausted" \in obs'.exc.msg
                            \/ "429" \in obs'.exc.msg
                    THEN "busy"
                    ELSE "generic"
              /\ attempt' = attempt
              /\ obs'.sleeps = obs.sleeps
              /\ obs'.attempts = obs.attempts
                    + (IF pc = "begin" THEN 1 ELSE 0)
      ]_vars

C21_Witness ==
    /\ flow = "plan" /\ pc = "done"
    /\ obs.exc = OtherError({"Malformed function call", "429"})
    /\ outcome = Outcome("malformed_call", Null)
    /\ obs.attempts = 1 /\ obs.sleeps = <<>>

(* C22: session['itinerary_data'] is written only by plan_trip and         *)
(* regenerate_itinerary, only in the step that parsed the reply, and then  *)
(* as a whole: the request data with the parsed itinerary (in              *)
(* regenerate_itinerary the request data of the original).  Every request  *)
(* that ends in a failure (busy, malformed call, other exception, missing  *)
(* form input) leaves it as it was.                                        *)
C22_StoredOnlyOnSuccess ==
    [][ /\ session' # session =>
              /\ flow \in {"plan", "regen"}
              /\ pc = "parse" /\ pc' = "done"
              /\ outcome'.status = "ok"
              /\ outcome'.body = Extract(flow, response.text).val
        /\ (pc' = "done" /\ outcome'.status = "ok" /\ flow # "adjust") =>
              session' = [request |-> RequestData, itinerary |-> outcome'.body]
        /\ (pc' = "done" /\ outcome'.status # "ok") => session' = session
        /\ pc' # "done" => session' = session
      ]_vars

C22_Witness ==
    /\ flow = "regen" /\ pc = "done" /\ outcome.status = "ok"
    /\ session = [request |-> OldItinerary.request,
                  itinerary |-> Obj(<<Str(<<"x">>)>>)]
    /\ session # OldItinerary

-----------------------------------------------------------------------------
(* Fence selection study: the text each flow searches the delimiters in *)

\* cleaned_text (raw_text in adjust_for_weather) after the strip and the fence
\* branches, before find / rfind
Cleaned(f, raw_text) ==
    IF f = "adjust" THEN FenceSelectArr(Strip(raw_text))
    ELSE FenceSelectObj(Strip(raw_text))

FenceProse == {<<>>, <<"x">>, <<"[">>, <<"]">>, <<"{">>, <<"}">>}

\* reply texts: commentary, an opening marker or none, an object or an array,
\* a closing marker or none, commentary
FenceTexts ==
    {lead \o open \o inner \o close \o trail :
        lead \in FenceProse, trail \in FenceProse,
        open \in {JsonFence, Fence, <<>>}, close \in {Fence, <<>>},
        inner \in {TObject, TArray}}

FInit ==
    /\ xt \in [text : FenceTexts, f : Flows, phase : {"input"},
               cleaned : {<<>>}]
    /\ flow = "none" /\ pc = "idle" /\ attempt = 0 /\ tool_call_count = 0
    /\ response = Null /\ session = Null /\ outcome = "none" /\ obs = Null
    /\ tl = Null /\ cc = Null /\ st = Null

FSelect ==
    /\ xt.phase = "input"
    /\ xt' = [xt EXCEPT !.phase = "done", !.cleaned = Cleaned(xt.f, xt.text)]
    /\ UNCHANGED <<flow, pc, attempt, tool_call_count, response, session,
                   outcome, obs, tl, cc, st>>

FNext == FSelect

SpecFence == FInit /\ [][FNext]_vars

(* C23: in all three flows the text searched for the delimiters is: the    *)
(* content between the first JSON-marked fence and the fence after it when *)
(* a JSON-marked fence is present; else the content between the first pair *)
(* of fences when any fence is present; else the whole stripped text.      *)
C23_SameFenceSelection ==
    xt.phase = "done" =>
        LET s == Strip(xt.text)
        IN  xt.cleaned =
              IF Contains(s, JsonFence)
              THEN Split(Split(s, JsonFence)[2], Fence)[1]
              ELSE IF Contains(s, Fence)
              THEN Split(Split(s, Fence)[2], Fence)[1]
              ELSE s

-----------------------------------------------------------------------------
\* what is left of a request: the attempts not yet started, and inside an
\* attempt the tool calls left and the handler position
Measure ==
    CASE pc = "begin" -> 10 * (MAX_RETRIES - attempt)
      [] pc = "loop" -> 10 * (MAX_RETRIES - attempt) - 1 - tool_call_count
      [] pc = "parse" -> 10 * (MAX_RETRIES - attempt) - 8
      [] OTHER -> 0

(* C24: every step of a plan_trip or adjust_for_weather request uses up    *)
(* part of a bounded measure (attempts left, tool calls left, handler      *)
(* position), so the request ends; it returns one response, having had     *)
(* none before; it makes at most 3 attempts, and as long as it has not     *)
(* returned an attempt is left: the loop over the attempts is never left   *)
(* without a response.                                                     *)
C24_AlwaysResponds ==
    [][ Retried =>
          /\ outcome = NoOutcome /\ pc # "done"
          /\ Measure' < Measure /\ Measure' >= 0
          /\ (pc' = "done") = (outcome' # NoOutcome)
          /\ pc' # "done" => attempt' < MAX_RETRIES
          /\ obs'.attempts <= MAX_RETRIES
      ]_vars

C24_Witness ==
    /\ flow = "adjust" /\ pc = "done"
    /\ obs.attempts = MAX_RETRIES
    /\ obs.hist = <<"rate_limit", "error", "ok">>
    /\ outcome.status = "ok"

(* C25: over one whole request, all attempts together, at most 15 tools    *)
(* are dispatched (3 attempts of 5) and at most 18 messages are sent to    *)
(* the model (3 attempts of a prompt and 5 function responses).            *)
C25_RequestTotals ==
    Retried =>
        /\ obs.dispatches <= MAX_RETRIES * MAX_TOOL_CALLS
        /\ obs.sends <= MAX_RETRIES * (MAX_TOOL_CALLS + 1)

C25_Witness ==
    /\ Retried /\ pc = "done"
    /\ obs.attempts = MAX_RETRIES
    /\ obs.dispatches = MAX_RETRIES * MAX_TOOL_CALLS
    /\ obs.sends = MAX_RETRIES * (MAX_TOOL_CALLS + 1)

\* the attempt before this one dispatched tools and then met a rate limit
AfterMidChatRateLimit ==
    /\ Retried /\ pc = "begin"
    /\ obs.hist # <<>> /\ Last(obs.hist) = "rate_limit"
    /\ obs.att_dispatches > 0

(* C26: when a send met a rate limit after tools had been dispatched in    *)
(* the attempt, the next attempt opens a new chat that holds the prompt    *)
(* only, has dispatched nothing, and enters its loop with the counter at   *)
(* 0; nothing of the failed attempt limits it, so it can dispatch the same *)
(* tool again.                                                             *)
C26_FreshChatOnRetry ==
    [][ AfterMidChatRateLimit =>
          /\ obs'.chat = 1
          /\ obs'.att_dispatches = 0
          /\ obs'.dispatches = obs.dispatches
          /\ pc' = "loop" => (tool_call_count' = 0 /\ LoopContinues(tool_call_count'))
      ]_vars

C26_Witness ==
    /\ flow = "plan" /\ pc = "done" /\ outcome.status = "ok"
    /\ obs.hist = <<"rate_limit", "ok">>
    /\ obs.sleeps = <<RATE_LIMIT_DELAY>>
    /\ obs.first_fc = "get_average_hotel_price"
    /\ obs.fr_name = "get_average_hotel_price"
    /\ obs.att_dispatches = 1 /\ obs.dispatches = 2
    /\ obs.chat = 2 /\ obs.sends = 4

-----------------------------------------------------------------------------
(* The stored trips and shares: the Firestore collections trips and        *)
(* shared_trips, the login session of one browser, and the routes and      *)
(* cloud functions that read and write them.  A request is a record of     *)
(* its method, the token of its Authorization header (or idToken), its     *)
(* argument (a trip or share id, or what stands for a missing one) and     *)
(* whether Firestore answers.                                              *)

Users == {"u1", "u2"}

\* the tokens a caller can send: none, one that does not verify, and the id
\* tokens of the users
Tokens == {"none", "invalid"} \cup Users

\* auth.verify_id_token(id_token)['uid'] returns for the id token of a user
\* and raises for anything else
Verifies(token) == token \in Users

\* the trip documents, one per user; "t0" is the id of no document
TripIds == {"t1", "t2"}
TripArgs == TripIds \cup {"t0", "no_trip_id", "no_json"}
TripsInit ==
    [t \in TripIds |->
        [user_id |-> IF t = "t1" THEN "u1" ELSE "u2", status |-> "planned"]]

\* the share ids uuid4 hands out, in this order
ShareSeq == <<"s1", "s2", "s3", "s4">>
ShareIds == {ShareSeq[i] : i \in 1..MaxShares}
ShareArgs == ShareIds \cup {"no_share_id", "no_json"}
NoDoc == [k |-> "no document"]

Requests(methods, tokens, args, dbs) ==
    [method : methods, token : tokens, arg : args, db_ok : dbs]

\* the response to a request, and the trip whose content it carries
Resp(route, req, status, content) ==
    [route |-> route, req |-> req, status |-> status, content |-> content]

OwnsTripMut(doc, uid) == TRUE

\* trip_data.get('user_id') == user_id
OwnsTrip(doc, uid) == doc.user_id = uid

\* the cloud function book_trip_status: its status code and the trips after
book_trip_status(req, trips) ==
    LET same(code) == [status |-> code, trips |-> trips]
    IN  IF req.method = "OPTIONS" THEN same(204)
        ELSE IF ~Verifies(req.token) THEN same(401)
        ELSE IF req.arg = "no_json" THEN same(500)
        ELSE IF req.arg = "no_trip_id" THEN same(400)
        ELSE IF ~req.db_ok THEN same(500)
        ELSE IF req.arg \notin DOMAIN trips THEN same(404)
        ELSE IF ~OwnsTrip(trips[req.arg], req.token) THEN same(403)
        ELSE [status |-> 200,
              trips |-> [trips EXCEPT ![req.arg].status = "booked"]]

\* the cloud function manage_trip_shares: no token is read; GET uses the
\* undefined name user_id; DELETE deletes the document of the id it is given
manage_trip_shares(req, shares) ==
    LET same(code) == [status |-> code, shares |-> shares]
    IN  IF req.method = "OPTIONS" THEN same(204)
        ELSE IF ~req.db_ok THEN same(500)
        ELSE IF req.method = "GET" THEN same(500)
        ELSE IF req.arg \notin ShareIds THEN same(500)
        ELSE [status |-> 200, shares |-> [shares EXCEPT ![req.arg] = NoDoc]]

SInit ==
    /\ st = [trips |-> TripsInit,
             shares |-> [s \in ShareIds |-> NoDoc],
             created |-> {},
             user |-> "none",
             last |-> NoDoc]
    /\ flow = "none" /\ pc = "idle" /\ attempt = 0 /\ tool_call_count = 0
    /\ response = Null /\ session = Null /\ outcome = "none" /\ obs = Null
    /\ xt = Null /\ tl = Null /\ cc = Null

Others == <<flow, pc, attempt, tool_call_count, response, session, outcome,
            obs, xt, tl, cc>>

\* a direct request to the cloud function book_trip_status
BookTrip ==
    /\ \E req \in Requests({"POST"}, Tokens, TripArgs, BOOLEAN)
                    \cup Requests({"OPTIONS"}, {"none"}, {"no_json"}, {TRUE}) :
          LET r == book_trip_status(req, st.trips)
          IN  st' = [st EXCEPT !.trips = r.trips,
                               !.last = Resp("book_trip_status", req,
                                             r.status, "none")]
    /\ UNCHANGED Others

\* the route /confirm-booking: the session check, then the cloud function
\* with the caller's Authorization header, then the trip is read
ConfirmBooking ==
    /\ \E req \in Requests({"POST"}, Tokens, TripArgs, {TRUE}) :
          LET r == book_trip_status(req, st.trips)
              answer(code, trips, content) ==
                  st' = [st EXCEPT !.trips = trips,
                                   !.last = Resp("confirm_booking", req, code,
                                                 content)]
          IN  IF st.user = "none" THEN answer(401, st.trips, "none")
              ELSE IF req.arg = "no_json" THEN answer(500, st.trips, "none")
              ELSE IF req.arg = "no_trip_id" THEN answer(400, st.trips, "none")
              ELSE IF r.status # 200 THEN answer(500, r.trips, "none")
              ELSE answer(200, r.trips, req.arg)
    /\ UNCHANGED Others

\* the route /sessionLogin
SessionLogin ==
    /\ \E req \in Requests({"POST"}, Tokens, {"idToken"}, {TRUE}) :
          IF Verifies(req.token)
          THEN st' = [st EXCEPT !.user = req.token,
                                !.last = Resp("session_login", req, 200, "none")]
          ELSE st' = [st EXCEPT !.last = Resp("session_login", req, 401, "none")]
    /\ UNCHANGED Others

\* the route /logout: session.clear()
Logout ==
    /\ \E req \in Requests({"GET"}, {"none"}, {"none"}, {TRUE}) :
          st' = [st EXCEPT !.user = "none",
                           !.last = Resp("logout", req, 302, "none")]
    /\ UNCHANGED Others

\* the document is there and its user_id is session['user_id']
SessionOwnsMut(trips, t, user) == t \in DOMAIN trips

SessionOwns(trips, t, user) == t \in DOMAIN trips /\ OwnsTrip(trips[t], user)

\* the route /trip/<trip_id>
TripDetails ==
    /\ \E req \in Requests({"GET"}, {"none"}, TripIds \cup {"t0"}, BOOLEAN) :
          LET answer(code, content) ==
                  st' = [st EXCEPT !.last = Resp("trip_details", req, code,
                                                 content)]
          IN  IF st.user = "none" THEN answer(302, "none")
              ELSE IF ~req.db_ok THEN answer(500, "none")
              ELSE IF req.arg \notin DOMAIN st.trips THEN answer(404, "none")
              ELSE IF ~SessionOwns(st.trips, req.arg, st.user)
              THEN answer(403, "none")
              ELSE answer(200, req.arg)
    /\ UNCHANGED Others

\* the route /payment/<trip_id>
Payment ==
    /\ \E req \in Requests({"GET"}, {"none"}, TripIds \cup {"t0"}, BOOLEAN) :
          LET answer(code, content) ==
                  st' = [st EXCEPT !.last = Resp("payment", req, code, content)]
          IN  IF st.user = "none" THEN answer(302, "none")
              ELSE IF ~req.db_ok THEN answer(500, "none")
              ELSE IF ~SessionOwns(st.trips, req.arg, st.user)
              THEN answer(404, "none")
              ELSE answer(200, req.arg)
    /\ UNCHANGED Others

\* the route /export-pdf/<trip_id>
ExportPdf ==
    /\ \E req \in Requests({"GET"}, {"none"}, TripIds \cup {"t0"}, BOOLEAN) :
          LET answer(code, content) ==
                  st' = [st EXCEPT !.last = Resp("export_trip_pdf", req, code,
                                                 content)]
          IN  IF st.user = "none" THEN answer(302, "none")
              ELSE IF ~req.db_ok THEN answer(500, "none")
              ELSE IF ~SessionOwns(st.trips, req.arg, st.user)
              THEN answer(403, "none")
              ELSE answer(200, req.arg)
    /\ UNCHANGED Others

\* share_data of make_trip_shareable
share_data(t, user) ==
    [original_trip_id |-> t, created_by |-> user, view_count |-> 0]

\* the route /share-trip/<trip_id>; share_id is the next unused id
MakeShareable ==
    /\ st.created # ShareIds
    /\ \E req \in Requests({"GET"}, {"none"}, TripIds \cup {"t0"}, BOOLEAN) :
          LET share_id == ShareSeq[Cardinality(st.created) + 1]
              answer(code, content) ==
                  st' = [st EXCEPT !.last = Resp("make_trip_shareable", req,
                                                 code, content)]
          IN  IF st.user = "none" THEN answer(302, "none")
              ELSE IF ~req.db_ok THEN answer(500, "none")
              ELSE IF ~SessionOwns(st.trips, req.arg, st.user)
              THEN answer(403, "none")
              ELSE st' = [st EXCEPT
                            !.shares[share_id] = share_data(req.arg, st.user),
                            !.created = @ \cup {share_id},
                            !.last = Resp("make_trip_shareable", req, 200,
                                          req.arg)]
    /\ UNCHANGED Others

\* a direct request to the cloud function manage_trip_shares
ManageShares ==
    /\ \E req \in Requests({"DELETE"}, Tokens, ShareArgs, BOOLEAN)
                    \cup Requests({"OPTIONS", "GET"}, {"none"}, {"no_json"},
                                  {TRUE}) :
          LET r == manage_trip_shares(req, st.shares)
          IN  st' = [st EXCEPT !.shares = r.shares,
                               !.last = Resp("manage_trip_shares", req,
                                             r.status, "none")]
    /\ UNCHANGED Others

\* the route /delete-share-link-proxy: the session check, the two inputs,
\* then a DELETE request to the cloud function
DeleteShareProxy ==
    /\ \E req \in Requests({"DELETE"}, Tokens, ShareArgs, {TRUE}) :
          LET r == manage_trip_shares(req, st.shares)
              answer(code, shares) ==
                  st' = [st EXCEPT !.shares = shares,
                                   !.last = Resp("delete_share_link_proxy",
                                                 req, code, "none")]
          IN  IF st.user = "none" THEN answer(401, st.shares)
              ELSE IF req.arg = "no_json" THEN answer(500, st.shares)
              ELSE IF req.token = "none" \/ req.arg = "no_share_id"
              THEN answer(400, st.shares)
              ELSE IF r.status # 200 THEN answer(500, r.shares)
              ELSE answer(200, r.shares)
    /\ UNCHANGED Others

SNext ==
    \/ BookTrip \/ ConfirmBooking \/ SessionLogin \/ Logout
    \/ TripDetails \/ Payment \/ ExportPdf \/ MakeShareable
    \/ ManageShares \/ DeleteShareProxy

SpecRoutes == SInit /\ [][SNext]_vars

\* the request carries the id token of the user that owns the trip it names
ByOwner(req, trips) ==
    /\ Verifies(req.token)
    /\ req.arg \in DOMAIN trips
    /\ trips[req.arg].user_id = req.token

BookRoutes == {"book_trip_status", "confirm_booking"}

\* the trips change only by an owner's booking of one trip
OnlyOwnerBooks ==
    st'.trips # st.trips =>
        /\ st'.last.route \in BookRoutes
        /\ st'.last.req.method # "OPTIONS"
        /\ ByOwner(st'.last.req, st.trips)
        /\ st'.trips = [st.trips EXCEPT ![st'.last.req.arg].status = "booked"]

\* a request to book_trip_status that is not an owner's
OtherBookRequest ==
    /\ st'.last.route = "book_trip_status"
    /\ ~ByOwner(st'.last.req, st.trips) \/ st'.last.req.method = "OPTIONS"

(* C27 as stated: book_trip_status sets the status of a trip to booked     *)
(* only for a request whose token verifies to the uid that owns the trip;  *)
(* every other request leaves the trips unchanged and gets 401, 400, 404   *)
(* or 403.                                                                 *)
C27_Original ==
    [][ /\ OnlyOwnerBooks
        /\ OtherBookRequest =>
              /\ st'.trips = st.trips
              /\ st'.last.status \in {401, 400, 404, 403}
      ]_vars

(* C27 amended: the same, where the other requests get 401, 400, 404 or    *)
(* 403, or 500 when the body is no JSON or Firestore fails, or 204 when    *)
(* the method is OPTIONS.                                                  *)
C27_BookOnlyByOwner ==
    [][ /\ OnlyOwnerBooks
        /\ OtherBookRequest =>
              /\ st'.trips = st.trips
              /\ st'.last.status \in {401, 400, 404, 403, 500, 204}
              /\ st'.last.status = 204 => st'.last.req.method = "OPTIONS"
              /\ st'.last.status = 500 =>
                    (st'.last.req.arg = "no_json" \/ ~st'.last.req.db_ok)
      ]_vars

C27_Witness ==
    /\ st # Null /\ st.last # NoDoc
    /\ st.last.route = "book_trip_status" /\ st.last.status = 200
    /\ st.last.req.token = "u1" /\ st.last.req.arg = "t1"
    /\ st.trips["t1"].status = "booked"
    /\ st.trips["t2"].status = "planned"

\* the shares that exist before a step and are gone after it
Deleted == {s \in ShareIds : st.shares[s] # NoDoc /\ st'.shares[s] = NoDoc}

(* C28: a share is deleted only by a request authenticated as the user     *)
(* that created it: a request to manage_trip_shares deletes a share only   *)
(* when its token verifies to the share's created_by, and the proxy route  *)
(* only when the session's user is the share's created_by.                 *)
C28_DeletedOnlyByCreator ==
    [][ \A s \in Deleted :
          \/ /\ st'.last.route = "manage_trip_shares"
             /\ Verifies(st'.last.req.token)
             /\ st'.last.req.token = st.shares[s].created_by
          \/ /\ st'.last.route = "delete_share_link_proxy"
             /\ st.user = st.shares[s].created_by
      ]_vars

OwnerRoutes == {"trip_details", "payment", "export_trip_pdf",
                "make_trip_shareable"}

\* the step is an owner-only route that gave out a trip or created a share
OwnerRouteSucceeds ==
    /\ st'.last.route \in OwnerRoutes
    /\ \/ st'.last.status = 200
       \/ st'.last.content # "none"
       \/ st'.shares # st.shares

(* C30: an owner-only route gives out a trip's content or creates a share  *)
(* for it only when the session's user_id is the trip's user_id; the       *)
(* session's user_id is set only by session_login, to the uid its token    *)
(* verified to; logout empties the session, and with an empty session no   *)
(* owner-only route succeeds.                                              *)
C30_OwnerOnlyRoutes ==
    [][ /\ OwnerRouteSucceeds =>
              /\ st.user # "none"
              /\ st'.last.req.arg \in DOMAIN st.trips
              /\ st.trips[st'.last.req.arg].user_id = st.user
              /\ st'.last.content = st'.last.req.arg
              /\ \A s \in ShareIds :
                    st'.shares[s] # st.shares[s] =>
                        /\ st'.last.route = "make_trip_shareable"
                        /\ st.shares[s] = NoDoc
                        /\ st'.shares[s] = share_data(st'.last.req.arg, st.user)
        /\ st'.last.route \in OwnerRoutes /\ ~OwnerRouteSucceeds =>
              st'.last.content = "none"
        /\ (st'.user # st.user /\ st'.user # "none") =>
              /\ st'.last.route = "session_login"
              /\ st'.last.status = 200
              /\ Verifies(st'.last.req.token)
              /\ st'.user = st'.last.req.token
        /\ st'.last.route = "logout" => st'.user = "none"
      ]_vars

C30_Witness ==
    /\ st # Null /\ st.last # NoDoc
    /\ st.last.route = "make_trip_shareable" /\ st.last.status = 200
    /\ st.user = "u2" /\ st.last.req.arg = "t2"
    /\ st.shares["s1"] # NoDoc
    /\ st.shares["s1"].created_by = "u1"
    /\ st.shares["s2"] = share_data("t2", "u2")

(***************************************************************************)
(* The public route /shared/<share_id>, requested by several clients at    *)
(* once.  A request is three Firestore operations: the read of the share,  *)
(* the update of its view_count, the read of the original trip.  The       *)
(* operations of different requests interleave.                            *)
(***************************************************************************)
Viewers == 1..MaxViewers

\* the share ids requested: two shares that exist and one that does not
ViewArgs == {"s1", "s2", "s0"}

\* firestore.Increment(1): the server adds to the value the document has
\* when the update is applied, not to the value the client read earlier
IncrementMut(read, current) == read + 1

Increment(read, current) == current + 1

Viewer(pc_, share_id, read, status) ==
    [pc |-> pc_, share_id |-> share_id, read |-> read, status |-> status]

VInit ==
    /\ \E trips \in {{"t1", "t2"}, {"t2"}} :
          st = [shares |-> [s \in ViewArgs |->
                              IF s = "s1" THEN share_data("t1", "u1")
                              ELSE IF s = "s2" THEN share_data("t2", "u2")
                              ELSE NoDoc],
                trips |-> trips,
                viewers |-> [v \in Viewers |-> Viewer("idle", "none", 0, 0)]]
    /\ flow = "none" /\ pc = "idle" /\ attempt = 0 /\ tool_call_count = 0
    /\ response = Null /\ session = Null /\ outcome = "none" /\ obs = Null
    /\ xt = Null /\ tl = Null /\ cc = Null

\* share_doc = share_ref.get(), and the 404 when it does not exist
ViewGetShare(v) ==
    /\ st.viewers[v].pc = "idle"
    /\ \E share_id \in ViewArgs :
          IF st.shares[share_id] = NoDoc
          THEN st' = [st EXCEPT !.viewers[v] = Viewer("done", share_id, 0, 404)]
          ELSE st' = [st EXCEPT !.viewers[v] =
                          Viewer("update", share_id,
                                 st.shares[share_id].view_count, 0)]
    /\ UNCHANGED Others

\* share_ref.update({'view_count': firestore.Increment(1)})
ViewUpdate(v) ==
    /\ st.viewers[v].pc = "update"
    /\ LET share_id == st.viewers[v].share_id
       IN  st' = [st EXCEPT
                    !.shares[share_id].view_count =
                        Increment(st.viewers[v].read, @),
                    !.viewers[v].pc = "trip"]
    /\ UNCHANGED Others

\* trip_doc = trip_ref.get(), the 404 when it does not exist, else the page
ViewGetTrip(v) ==
    /\ st.viewers[v].pc = "trip"
    /\ LET share_id == st.viewers[v].share_id
           trip_id == st.shares[share_id].original_trip_id
       IN  st' = [st EXCEPT
                    !.viewers[v].pc = "done",
                    !.viewers[v].status =
                        IF trip_id \in st.trips THEN 200 ELSE 404]
    /\ UNCHANGED Others

VNext ==
    \E v \in Viewers : ViewGetShare(v) \/ ViewUpdate(v) \/ ViewGetTrip(v)

SpecViews == VInit /\ [][VNext]_vars

\* the requests for share s whose update has been applied
Updated(s) ==
    {v \in Viewers : st.viewers[v].share_id = s
                     /\ st.viewers[v].pc \in {"trip", "done"}}

\* the requests that have answered
Answered == {v \in Viewers : st.viewers[v].pc = "done"}

\* the count of every share is the number of updates applied to it
CountsViews ==
    \A s \in ViewArgs :
        IF st.shares[s] = NoDoc THEN Updated(s) \ Answered = {}
        ELSE st.shares[s].view_count = Cardinality(Updated(s))

=============================================================================
